---- MODULE Spec2Model ----
(***************************************************************************)
(* A model of dynamic-plugin: the signature hasher shared by the           *)
(* plugin_interface! and plugin_impl! macros, the build-time assertion     *)
(* emitted by plugin_impl!, and the host facade generated by               *)
(* plugin_interface! (find_plugins, load_plugin, load_plugin_and_check,    *)
(* load_plugin_and_check_compat and the per-function calling methods).     *)
(*                                                                         *)
(* Identifiers and tokens are sequences of bytes (their UTF-8 encoding),   *)
(* and a u64 is a sequence of 8 bytes, least significant first, so that    *)
(* the hasher's wrapping_add and rotate_left(8) are computed exactly.      *)
(***************************************************************************)
EXTENDS Integers, Sequences, FiniteSets, TLC

VARIABLES
    \* ---- build time (the two macros) ----
    plugin_def,     \* the PluginDefinition handed to plugin_interface!
    plugin,         \* the PluginImplementation handed to plugin_impl!
    built,          \* what the two macro expansions produced so far
    \* ---- run time (the generated host facade) ----
    libraries,      \* open library handles: handle -> the file it was opened from
    plugins,        \* live values of the generated struct, each with its `library` handle
    last            \* the last facade call: its inputs, its result, the loader events

buildVars == <<plugin_def, plugin, built>>
hostVars == <<libraries, plugins, last>>
vars == <<plugin_def, plugin, built, libraries, plugins, last>>

----------------------------------------------------------------------------
(* Bounds of the model *)

\* Functions in one interface description or implementation.
MaxFns == 2
\* Entries of a directory listing handed to find_plugins.
MaxDir == 2
\* Values of the generated struct alive at the same time.
MaxPlugins == 2
\* Parameters of one function of an interface description.
MaxParams == 2

----------------------------------------------------------------------------
(* Byte strings *)

S_fn == <<102, 110>>                                       \* "fn"
S_arg == <<97, 114, 103>>                                  \* "arg"
S_ret == <<114, 101, 116>>                                 \* "ret"
S_arr == <<97, 114, 114>>                                  \* "arr"
S_arrow == <<45, 62>>                                      \* "->"
S_unit == <<40, 41>>                                       \* "()"
S_semi == <<59>>                                           \* ";"
S_never == <<110, 101, 118, 101, 114>>                     \* "never"
S_u32 == <<117, 51, 50>>                                   \* "u32"
S_bool == <<98, 111, 111, 108>>                            \* "bool"
S_c_char == <<99, 95, 99, 104, 97, 114>>                   \* "c_char"
S_libc == <<108, 105, 98, 99>>                             \* "libc"
S_do_a_thing == <<100, 111, 95, 97, 95, 116, 104, 105, 110, 103>>   \* "do_a_thing"
S_say_hello == <<115, 97, 121, 95, 104, 101, 108, 108, 111>>        \* "say_hello"
S_add == <<97, 100, 100>>                                  \* "add"
S_i32 == <<105, 51, 50>>                                   \* "i32"
S_usize == <<117, 115, 105, 122, 101>>                       \* "usize"
S_isize == <<105, 115, 105, 122, 101>>                       \* "isize"
S_Vec == <<86, 101, 99>>                                    \* "Vec"
S_bracket_open == <<91>>                                   \* "["
S_bracket_close == <<93>>                                  \* "]"
S_bare_fn == <<117, 110, 115, 97, 102, 101, 32, 101, 120, 116, 101, 114, 110, 32, 34, 67, 34, 32, 102, 110, 40>>
    \* r#"unsafe extern "C" fn("#
S_comma == <<44, 32>>                                      \* ", "
S_paren_close == <<41>>                                    \* ")"
S_arrow_space == <<45, 62, 32>>                                  \* "-> "
S_bang == <<33>>                                           \* "!"
S_ExamplePlugin == <<69, 120, 97, 109, 112, 108, 101, 80, 108, 117, 103, 105, 110>>
S_example_plugin_host ==
    <<101, 120, 97, 109, 112, 108, 101, 95, 112, 108, 117, 103, 105, 110,
      95, 104, 111, 115, 116>>
\* "_dynamic_plugin_signature"
S_dynamic_plugin_signature ==
    <<95, 100, 121, 110, 97, 109, 105, 99, 95, 112, 108, 117, 103, 105, 110,
      95, 115, 105, 103, 110, 97, 116, 117, 114, 101>>

\* Ord for str: lexicographic on bytes.
RECURSIVE StrLess(_, _)
StrLess(a, b) ==
    IF b = <<>> THEN FALSE
    ELSE IF a = <<>> THEN TRUE
    ELSE IF Head(a) # Head(b) THEN Head(a) < Head(b)
    ELSE StrLess(Tail(a), Tail(b))

Last(s) == s[Len(s)]

----------------------------------------------------------------------------
(* hasher.rs: PluginSignatureHasher *)

\* #[derive(Default)]: inner = 0u64.
PluginSignatureHasher_default == <<0, 0, 0, 0, 0, 0, 0, 0>>

\* u64::wrapping_add of a carry into byte i and the bytes above it.
RECURSIVE AddAt(_, _, _)
AddAt(inner, i, c) ==
    IF i > Len(inner) \/ c = 0 THEN inner
    ELSE LET t == inner[i] + c
         IN  AddAt([inner EXCEPT ![i] = t % 256], i + 1, t \div 256)

wrapping_add(inner, byte) == AddAt(inner, 1, byte)

\* u64::rotate_left(8): every byte moves one place up, the top byte wraps.
rotate_left_8(inner) ==
    <<inner[8], inner[1], inner[2], inner[3], inner[4], inner[5], inner[6], inner[7]>>

\* Hasher::write, the body of `for byte in bytes`.
write_byte(inner, byte) == rotate_left_8(wrapping_add(inner, byte))

\* Hasher::write: the loop over the bytes, first to last.  The loop over a
\* long slice is the loop over its first half followed by the loop over its
\* second half, which keeps the evaluation shallow; the test on `half` makes
\* TLC compute the hasher after the first half before it enters the second.
RECURSIVE write(_, _)
write(inner, bytes) ==
    IF Len(bytes) = 0 THEN inner
    ELSE IF Len(bytes) = 1 THEN write_byte(inner, bytes[1])
    ELSE LET h == Len(bytes) \div 2
             half == write(inner, SubSeq(bytes, 1, h))
         IN  IF Len(half) = Len(inner)
             THEN write(half, SubSeq(bytes, h + 1, Len(bytes)))
             ELSE half

\* Hasher::finish.
finish(inner) == inner

(* Every Hash implementation below changes the hasher only through          *)
(* Hasher::write, so it is modelled by the bytes it writes, in the order it *)
(* writes them (the string the debug-hashes feature collects in             *)
(* PluginSignatureHasher::debug); the hasher's value after it is `write` of *)
(* those bytes.                                                             *)

\* Hasher::write_u8 (provided method): write(&[i]).
write_u8(i) == <<i>>

\* Hasher::write_usize (provided method): write(&i.to_ne_bytes()), 8 bytes,
\* least significant first; every length and discriminant here is below 256.
write_usize(i) == <<i, 0, 0, 0, 0, 0, 0, 0>>

\* <str as Hash>::hash, also Ident's and String's: the bytes, then 0xff.
hash_str(s) == s \o write_u8(255)

----------------------------------------------------------------------------
(* Surface types (syn::Type), as far as the model's interfaces use them *)

\* Option<T> is a sequence of at most one T.
None == <<>>
Some(x) == <<x>>

\* ::dynamic_plugin::Result (src/lib.rs 17)
Ok(v) == [ok |-> TRUE, v |-> v]
Err(e) == [ok |-> FALSE, e |-> e]

\* PathArguments of the last segment: none, or angle brackets around a type
\* or around a lifetime.
PathArguments_None == "None"
AngleBracketed_Type == "<T>"
AngleBracketed_Lifetime == "<'a>"

TPathWith(segs, arguments) ==                          \* a::b::c, a::b::c<T>, a::b::c<'a>
    [k |-> "Path", segs |-> segs, arguments |-> arguments]
TPath(segs) == TPathWith(segs, PathArguments_None)      \* a::b::c, no qself, no arguments
TPtr(mutable, elem) == [k |-> "Ptr", mutable |-> mutable, elem |-> elem]  \* *mut T, *const T
TParen(elem) == [k |-> "Paren", elem |-> elem]          \* (T)
TNever == [k |-> "Never"]                               \* !
TArray(elem) == [k |-> "Array", elem |-> elem]          \* [T; n]
TReference(elem) == [k |-> "Reference", elem |-> elem]  \* &T
TSlice(elem) == [k |-> "Slice", elem |-> elem]          \* [T]
TTraitObject == [k |-> "TraitObject"]                   \* dyn Trait
TTuple(elems) == [k |-> "Tuple", elems |-> elems]       \* (A, B)
TInfer == [k |-> "Infer"]                               \* _
TBareFn(inputs, variadic, output) ==                    \* extern "C" fn(A, B, ...) -> R
    [k |-> "BareFn", inputs |-> inputs, variadic |-> variadic, output |-> output]

T_u32 == TPath(<<S_u32>>)
T_bool == TPath(<<S_bool>>)
T_c_char == TPath(<<S_c_char>>)
T_libc_c_char == TPath(<<S_libc, S_c_char>>)
T_i32 == TPath(<<S_i32>>)
T_usize == TPath(<<S_usize>>)
T_isize == TPath(<<S_isize>>)

----------------------------------------------------------------------------
(* lib.rs: hash_type, the canonical hash of a type *)

\* The messages of the abort! calls of hash_type.
Abort_Variadic == "Bare functions with variadics are not supported in plugin interfaces"
Abort_Infer == "Compiler inference is supported in plugin interfaces"
Abort_PathArguments == "Types cannot be generic or require lifetimes in plugin interfaces"
Abort_Reference ==
    "References are not supported in plugin interfaces (use raw pointers instead)"
Abort_Slice == "Slices are not supported in plugin interfaces (use raw pointers instead)"
Abort_TraitObject == "Trait objects not supported in plugin interfaces"
Abort_Tuple == "Tuples not supported in plugin interfaces"

\* The first of the options that is Some, None when none is.
RECURSIVE FirstSome(_)
FirstSome(options) ==
    IF options = <<>> THEN None
    ELSE IF Head(options) # None THEN Head(options)
    ELSE FirstSome(Tail(options))

\* hash_type, its abort!: the message of the first abort! the traversal of ty
\* reaches, None when it reaches none.
RECURSIVE hash_type_abort(_)
hash_type_abort(ty) ==
    CASE ty.k = "Array" -> hash_type_abort(ty.elem)
      [] ty.k = "BareFn" ->
            FirstSome([i \in DOMAIN ty.inputs |-> hash_type_abort(ty.inputs[i])]
                      \o <<IF ty.variadic THEN Some(Abort_Variadic) ELSE None>>
                      \o <<IF ty.output = None THEN None
                           ELSE hash_type_abort(ty.output[1])>>)
      [] ty.k = "Group" -> hash_type_abort(ty.elem)
      [] ty.k = "Infer" -> Some(Abort_Infer)
      [] ty.k = "Never" -> None
      [] ty.k = "Paren" -> hash_type_abort(ty.elem)
      [] ty.k = "Path" ->
            IF ty.arguments # PathArguments_None THEN Some(Abort_PathArguments) ELSE None
      [] ty.k = "Ptr" -> hash_type_abort(ty.elem)
      [] ty.k = "Reference" -> Some(Abort_Reference)
      [] ty.k = "Slice" -> Some(Abort_Slice)
      [] ty.k = "TraitObject" -> Some(Abort_TraitObject)
      [] ty.k = "Tuple" -> Some(Abort_Tuple)

\* hash_type, what it writes when it reaches no abort!.
RECURSIVE hash_type(_)
RECURSIVE hash_types(_)
hash_type(ty) ==
    CASE ty.k = "Array" -> hash_str(S_arr) \o hash_type(ty.elem)
      [] ty.k = "BareFn" ->
            hash_str(S_fn)
                \o hash_types(ty.inputs)
                \o hash_str(S_arrow)
                \o (IF ty.output = None THEN hash_str(S_unit) ELSE hash_type(ty.output[1]))
                \o hash_str(S_semi)
      [] ty.k = "Group" -> hash_type(ty.elem)
      [] ty.k = "Never" -> hash_str(S_never)
      [] ty.k = "Paren" -> hash_type(ty.elem)
      [] ty.k = "Path" -> hash_str(Last(ty.segs))       \* "Hash only last segment"
      [] ty.k = "Ptr" -> hash_type(ty.elem)

\* hash_type, `for inp in inner.inputs`
hash_types(tys) ==
    IF tys = <<>> THEN <<>>
    ELSE hash_type(Head(tys)) \o hash_types(Tail(tys))

\* Appends `sep` after every string: the loop of type_to_string over the inputs.
RECURSIVE push_each(_, _)
push_each(strings, sep) ==
    IF strings = <<>> THEN <<>>
    ELSE Head(strings) \o sep \o push_each(Tail(strings), sep)

\* lib.rs 401-452: type_to_string, None or Some(the string).
RECURSIVE type_to_string(_)
type_to_string(ty) ==
    CASE ty.k = "Array" ->
            LET elem == type_to_string(ty.elem)
            IN  IF elem = None THEN None
                ELSE Some(S_bracket_open \o elem[1] \o S_bracket_close)
      [] ty.k = "BareFn" ->
            LET inputs == [i \in DOMAIN ty.inputs |-> type_to_string(ty.inputs[i])]
                output == IF ty.output = None THEN Some(<<>>)
                          ELSE type_to_string(ty.output[1])
                pushed == push_each([i \in DOMAIN inputs |-> inputs[i][1]], S_comma)
                \* s.pop(); s.pop() when there are inputs
                popped == IF pushed = <<>> THEN <<>>
                          ELSE SubSeq(pushed, 1, Len(pushed) - Len(S_comma))
            IN  IF \E i \in DOMAIN inputs : inputs[i] = None THEN None
                ELSE IF ty.variadic THEN None
                ELSE IF output = None THEN None
                ELSE Some(S_bare_fn \o popped \o S_paren_close
                            \o (IF ty.output = None THEN <<>>
                                ELSE S_arrow_space \o output[1]))
      [] ty.k = "Group" -> type_to_string(ty.elem)
      [] ty.k = "Paren" -> type_to_string(ty.elem)
      [] ty.k = "Ptr" -> type_to_string(ty.elem)
      [] ty.k = "Never" -> Some(S_bang)
      [] ty.k = "Path" ->
            IF ty.arguments # PathArguments_None THEN None ELSE Some(Last(ty.segs))
      [] ty.k \in {"Infer", "Reference", "Slice", "TraitObject", "Tuple"} -> None

----------------------------------------------------------------------------
(* def.rs lines 31 and 37: `ty.hash(state)` is syn's own Hash for Type, which *)
(* hashes the syntax tree: a variant tag, then the variant's fields.  An      *)
(* Option hashes its discriminant as an isize and then its content, a Vec     *)
(* its length as a usize and then its elements, a token nothing.              *)

\* PathSegment: ident, then PathArguments::None (tag 0).
PathSegment_hash(ident) == hash_str(ident) \o write_u8(0)

RECURSIVE PathSegments_hash(_)
PathSegments_hash(segs) ==
    IF segs = <<>> THEN <<>>
    ELSE PathSegment_hash(Head(segs)) \o PathSegments_hash(Tail(segs))

\* Path: leading_colon, then segments, a Punctuated<PathSegment, ::>, which is
\* the Vec of (segment, ::) pairs before the last segment and the Option of
\* the last segment.
Path_hash(segs) ==
    LET n == Len(segs)
    IN  write_usize(0)                                  \* leading_colon: None
            \o write_usize(n - 1)                       \* inner.len()
            \o PathSegments_hash(SubSeq(segs, 1, n - 1))
            \o write_usize(1)                           \* last: Some
            \o PathSegment_hash(segs[n])

RECURSIVE Type_hash(_)
Type_hash(ty) ==
    CASE ty.k = "Never" -> write_u8(6)
      [] ty.k = "Paren" -> write_u8(7) \o Type_hash(ty.elem)
      [] ty.k = "Path" ->
            write_u8(8) \o write_usize(0)               \* qself: None
                \o Path_hash(ty.segs)
      [] ty.k = "Ptr" ->
            write_u8(9)
                \o write_usize(IF ty.mutable THEN 0 ELSE 1)    \* const_token
                \o write_usize(IF ty.mutable THEN 1 ELSE 0)    \* mutability
                \o Type_hash(ty.elem)

----------------------------------------------------------------------------
(* def.rs: PluginDefinition and its Hash *)

\* PluginFunction { name, arguments (the typed ones), return_type }
PluginFunction(name, arguments, return_type) ==
    [name |-> name, arguments |-> arguments, return_type |-> return_type]

\* Vec::sort_by is stable; insertion sort gives the same order.
RECURSIVE def_insert(_, _)
def_insert(f, sorted) ==
    IF sorted = <<>> THEN <<f>>
    ELSE IF StrLess(f.name, Head(sorted).name) THEN <<f>> \o sorted
    ELSE <<Head(sorted)>> \o def_insert(f, Tail(sorted))

RECURSIVE def_sort_from(_, _)
def_sort_from(functions, n) ==
    IF n = 0 THEN <<>>
    ELSE def_insert(functions[n], def_sort_from(functions, n - 1))

def_unsorted(functions) == functions

\* functions.sort_by(|a, b| a.name.cmp(&b.name))
def_sort_by_name(functions) == def_sort_from(functions, Len(functions))

\* `for inp in function.arguments` and `if let Some(ty) = function.return_type`
RECURSIVE def_hash_types(_)
def_hash_types(tys) ==
    IF tys = <<>> THEN <<>>
    ELSE Type_hash(Head(tys)) \o def_hash_types(Tail(tys))

\* One turn of `for function in functions`.
def_hash_function(function) ==
    hash_str(function.name)
        \o def_hash_types(function.arguments)
        \o def_hash_types(function.return_type)

RECURSIVE def_hash_functions(_)
def_hash_functions(functions) ==
    IF functions = <<>> THEN <<>>
    ELSE def_hash_function(Head(functions)) \o def_hash_functions(Tail(functions))

\* impl Hash for PluginDefinition
PluginDefinition_hash(def) ==
    hash_str(def.name) \o def_hash_functions(def_sort_by_name(def.functions))

----------------------------------------------------------------------------
(* implementation.rs: PluginImplementation and its Hash *)

\* MaybeUnsafeFn, as far as it is hashed: func.sig.{ident, inputs, output}
ItemFn(ident, inputs, output) ==
    [ident |-> ident, inputs |-> inputs, output |-> output]

RECURSIVE impl_insert(_, _)
impl_insert(f, sorted) ==
    IF sorted = <<>> THEN <<f>>
    ELSE IF StrLess(f.ident, Head(sorted).ident) THEN <<f>> \o sorted
    ELSE <<Head(sorted)>> \o impl_insert(f, Tail(sorted))

RECURSIVE impl_sort_from(_, _)
impl_sort_from(functions, n) ==
    IF n = 0 THEN <<>>
    ELSE impl_insert(functions[n], impl_sort_from(functions, n - 1))

\* functions.sort_by(|a, b| a.func.sig.ident.cmp(&b.func.sig.ident))
impl_sort_by_ident(functions) == impl_sort_from(functions, Len(functions))

\* `for inp in function.sig.inputs`
RECURSIVE impl_hash_inputs(_)
impl_hash_inputs(tys) ==
    IF tys = <<>> THEN <<>>
    ELSE hash_str(S_arg) \o hash_type(Head(tys)) \o impl_hash_inputs(Tail(tys))

\* One turn of `for maybe_unsafe_func in functions`.
impl_hash_function(function) ==
    hash_str(S_fn)
        \o hash_str(function.ident)
        \o impl_hash_inputs(function.inputs)
        \o (IF function.output = None THEN <<>>
            ELSE hash_str(S_ret) \o hash_type(function.output[1]))

RECURSIVE impl_hash_functions(_)
impl_hash_functions(functions) ==
    IF functions = <<>> THEN <<>>
    ELSE impl_hash_function(Head(functions)) \o impl_hash_functions(Tail(functions))

\* impl Hash for PluginImplementation
PluginImplementation_hash(impl) ==
    hash_str(Last(impl.target_plugin))
        \o impl_hash_functions(impl_sort_by_ident(impl.functions))

\* impl Hash for PluginImplementation, its abort!: the first abort! that
\* hash_type reaches, over the functions in sorted order, the inputs of each
\* in declaration order and then its output.
impl_abort_function(function) ==
    FirstSome([i \in DOMAIN function.inputs |-> hash_type_abort(function.inputs[i])]
              \o <<IF function.output = None THEN None
                   ELSE hash_type_abort(function.output[1])>>)

PluginImplementation_abort(impl) ==
    LET functions == impl_sort_by_ident(impl.functions)
    IN  FirstSome([i \in DOMAIN functions |-> impl_abort_function(functions[i])])

\* let mut hasher = PluginSignatureHasher::default(); x.hash(&mut hasher);
\* hasher.finish(), for the bytes x.hash writes.
signature(bytes) == finish(write(PluginSignatureHasher_default, bytes))

----------------------------------------------------------------------------
(* Files a path can name, as the dynamic loader sees them *)

\* What libloading finds at a path: whether Library::new opens it, the symbols
\* it exports, the u64 its _dynamic_plugin_signature returns when it has one,
\* and whether its exported functions have the types the interface declares
\* (which no loader operation can observe).
LibraryFile(opens, symbols, sig, abi_ok) ==
    [opens |-> opens, symbols |-> symbols, sig |-> sig, abi_ok |-> abi_ok]

----------------------------------------------------------------------------
(* lib.rs: plugin_interface! and plugin_impl!, the build *)

\* The message of the .expect(..) calls of plugin_interface.
Expect_FailedEarlier == "this should have failed earlier! please open a bug report!"

\* lib.rs 206-262: the `definition` string is built from type_to_string of
\* every parameter and return type, each unwrapped with .expect(..), which
\* panics on None.  The panic's message, None when there is no panic.
definition_expect(def) ==
    IF \E i \in DOMAIN def.functions :
          \/ \E j \in DOMAIN def.functions[i].arguments :
                type_to_string(def.functions[i].arguments[j]) = None
          \/ /\ def.functions[i].return_type # None
             /\ type_to_string(def.functions[i].return_type[1]) = None
    THEN Some(Expect_FailedEarlier)
    ELSE None

\* lib.rs 36-309: plugin_interface.  The hash (40-42) is computed by
\* PluginDefinition's Hash, which rejects nothing; a panic while the
\* definition string is built ends the expansion, and nothing is emitted;
\* otherwise the expansion holds pub const PLUGIN_SIGNATURE: u64 = #hash (294).
plugin_interface(def) ==
    LET panic == definition_expect(def)
    IN  IF panic # None THEN [panic |-> panic]
        ELSE [PLUGIN_SIGNATURE |-> signature(PluginDefinition_hash(def)),
              panic |-> None]

static_assert_unchecked(exp) == TRUE

\* src/lib.rs static_assert!: the constant evaluation panics, and the build
\* fails, unless the expression is true.
static_assert(exp) == exp

\* The `_dynamic_plugin_signature` and the #[no_mangle] functions the expansion
\* of plugin_impl! exports.
plugin_artifact(impl, hash) ==
    LibraryFile(TRUE,
                {S_dynamic_plugin_signature}
                    \cup {impl.functions[i].ident : i \in DOMAIN impl.functions},
                hash, TRUE)

\* lib.rs 357-396: the hash of the implementation, the assertion against the
\* target's PLUGIN_SIGNATURE, and what the build leaves behind.
plugin_impl(impl, target_PLUGIN_SIGNATURE) ==
    LET abort == PluginImplementation_abort(impl)
        hash == signature(PluginImplementation_hash(impl))
        ok == static_assert(target_PLUGIN_SIGNATURE = hash)
    IN  IF abort # None THEN [abort |-> abort]
        ELSE [hash |-> hash,
              assert_ok |-> ok,
              artifact |-> IF ok THEN Some(plugin_artifact(impl, hash)) ELSE None,
              abort |-> None]

----------------------------------------------------------------------------
(* Inputs of the build: interface descriptions and implementations *)

FnNames == {S_do_a_thing, S_say_hello, S_add}

\* The typed parameters and the return type a function is declared with.
FnSignatures ==
    {[arguments |-> <<>>, return_type |-> None],
     [arguments |-> <<TPtr(FALSE, T_c_char)>>, return_type |-> Some(T_bool)],
     [arguments |-> <<T_u32, T_bool>>, return_type |-> None]}

FnPool ==
    {PluginFunction(n, sig.arguments, sig.return_type) : n \in FnNames, sig \in FnSignatures}

DistinctNames(fs) ==
    \A i, j \in DOMAIN fs : i # j => fs[i].name # fs[j].name

\* Function lists of at most MaxFns functions with pairwise distinct names.
FnLists ==
    {fs \in UNION {[1..n -> FnPool] : n \in 0..MaxFns} : DistinctNames(fs)}

Definitions == {[name |-> S_ExamplePlugin, functions |-> fs] : fs \in FnLists}

Perms(n) == {p \in [1..n -> 1..n] : \A i, j \in 1..n : i # j => p[i] # p[j]}
Permuted(fs, p) == [i \in DOMAIN fs |-> fs[p[i]]]
Without(fs, i) == SubSeq(fs, 1, i - 1) \o SubSeq(fs, i + 1, Len(fs))

\* The function of an implementation that implements f verbatim.
Implements(f) == ItemFn(f.name, f.arguments, f.return_type)
ImplOf(fs) ==
    [target_plugin |-> <<S_example_plugin_host, S_ExamplePlugin>>,
     functions |-> [i \in DOMAIN fs |-> Implements(fs[i])]]

\* The implementations written against def: its functions in any order, with
\* one of them left out, or with one of them replaced by another function.
Reorderings(def) ==
    {ImplOf(Permuted(def.functions, p)) : p \in Perms(Len(def.functions))}
Omissions(def) ==
    {ImplOf(Without(def.functions, i)) : i \in DOMAIN def.functions}
Replacements(def) ==
    {ImplOf(fs) : fs \in {gs \in {[def.functions EXCEPT ![i] = g] :
                                    i \in DOMAIN def.functions, g \in FnPool} :
                            DistinctNames(gs)}}
Implementations(def) == Reorderings(def) \cup Omissions(def) \cup Replacements(def)

NotBuilt == [stage |-> "source", PLUGIN_SIGNATURE |-> None, hash |-> None,
             assert_ok |-> None, artifact |-> None, abort |-> None]

----------------------------------------------------------------------------
(* The build as a state machine *)

\* The host crate is compiled: plugin_interface! expands, or panics.
PluginInterface ==
    /\ built.stage = "source"
    /\ LET out == plugin_interface(plugin_def)
       IN  built' = IF out.panic # None
                    THEN [built EXCEPT !.stage = "rejected", !.abort = out.panic]
                    ELSE [built EXCEPT !.stage = "interface",
                             !.PLUGIN_SIGNATURE = Some(out.PLUGIN_SIGNATURE)]
    /\ UNCHANGED <<plugin_def, plugin, hostVars>>

\* plugin_impl! expands for impl, or aborts.
PluginImplOf(impl) ==
    LET out == plugin_impl(impl, built.PLUGIN_SIGNATURE[1])
    IN  /\ plugin' = Some(impl)
        /\ built' = IF out.abort # None
                    THEN [built EXCEPT !.stage = "plugin", !.abort = out.abort]
                    ELSE [built EXCEPT !.stage = "plugin",
                             !.hash = Some(out.hash),
                             !.assert_ok = Some(out.assert_ok),
                             !.artifact = out.artifact]
        /\ UNCHANGED <<plugin_def, hostVars>>

\* A plugin crate written against the interface is compiled: plugin_impl! expands.
PluginImpl ==
    /\ built.stage = "interface"
    /\ \E impl \in Implementations(plugin_def) : PluginImplOf(impl)

InitBuild ==
    /\ plugin_def \in Definitions
    /\ plugin = None
    /\ built = NotBuilt
    /\ libraries = <<>>
    /\ plugins = {}
    /\ last = [op |-> "none", result |-> Ok(<<>>), events |-> <<>>]

NextBuild == PluginInterface \/ PluginImpl

SpecBuild == InitBuild /\ [][NextBuild]_vars

----------------------------------------------------------------------------
(* The build over the types a parameter or a return type can have *)

\* Types hash_type and type_to_string accept.
ValidTypes ==
    {T_u32, T_i32, T_usize, T_isize, T_c_char, T_libc_c_char,
     TPtr(FALSE, T_c_char), TPtr(TRUE, T_c_char), TParen(T_c_char)}

\* One type for each construct that has no canonical form.
RejectedConstructs ==
    [generic_type_argument |-> TPathWith(<<S_Vec>>, AngleBracketed_Type),
     lifetime_parameter |-> TPathWith(<<S_Vec>>, AngleBracketed_Lifetime),
     reference_type |-> TReference(T_u32),
     slice_type |-> TSlice(T_u32),
     trait_object |-> TTraitObject,
     tuple_type |-> TTuple(<<T_u32, T_i32>>),
     inferred_type |-> TInfer,
     variadic_bare_function |-> TBareFn(<<T_u32>>, TRUE, None)]

\* Those types, and one of them behind a pointer.
RejectedTypes ==
    {RejectedConstructs[c] : c \in DOMAIN RejectedConstructs}
        \cup {TPtr(FALSE, TReference(T_u32))}

\* The descriptions with the one function `add`: at most one parameter and
\* maybe a return type, or up to MaxParams parameters, of valid types; or one
\* rejected type as the parameter or as the return type.
TypedFunctions ==
    {PluginFunction(S_add, arguments, return_type) :
        arguments \in UNION {[1..n -> ValidTypes] : n \in 0..1},
        return_type \in {None} \cup {Some(ty) : ty \in ValidTypes}}
    \cup {PluginFunction(S_add, arguments, None) :
            arguments \in UNION {[1..n -> ValidTypes] : n \in 2..MaxParams}}
    \cup {PluginFunction(S_add, <<ty>>, None) : ty \in RejectedTypes}
    \cup {PluginFunction(S_add, <<>>, Some(ty)) : ty \in RejectedTypes}

TypedDefinitions ==
    {[name |-> S_ExamplePlugin, functions |-> <<f>>] : f \in TypedFunctions}

\* f with one of its types replaced by ty.
Retyped(f, ty) ==
    {[f EXCEPT !.arguments[j] = ty] : j \in DOMAIN f.arguments}
        \cup (IF f.return_type = None THEN {}
              ELSE {[f EXCEPT !.return_type = Some(ty)]})

\* The implementations written against def with a rejected type in the place
\* of one type of one function.
Retypings(def) ==
    UNION {{ImplOf([def.functions EXCEPT ![i] = g]) : g \in Retyped(def.functions[i], ty)} :
            i \in DOMAIN def.functions, ty \in RejectedTypes}

\* A plugin crate that declares a type without canonical form is compiled.
PluginImplRetyped ==
    /\ built.stage = "interface"
    /\ \E impl \in Retypings(plugin_def) : PluginImplOf(impl)

InitTypes ==
    /\ plugin_def \in TypedDefinitions
    /\ plugin = None
    /\ built = NotBuilt
    /\ libraries = <<>>
    /\ plugins = {}
    /\ last = [op |-> "none", result |-> Ok(<<>>), events |-> <<>>]

NextTypes == PluginInterface \/ PluginImpl \/ PluginImplRetyped

SpecTypes == InitTypes /\ [][NextTypes]_vars

----------------------------------------------------------------------------
(* The host facade generated by plugin_interface!, lib.rs 96-201 *)

\* What the facade does to the dynamic loader and to the plugin's code, in the
\* order it does it.
EvOpenFailed(path) == [e |-> "open_failed", path |-> path]       \* Library::new(path) is Err
EvOpen(path, h) == [e |-> "open", path |-> path, h |-> h]        \* Library::new(path) is Ok
EvGet(h, symbol, found) == [e |-> "get", h |-> h, symbol |-> symbol, found |-> found]
EvCall(h, symbol, args) == [e |-> "call", h |-> h, symbol |-> symbol, args |-> args]
EvClose(h) == [e |-> "close", h |-> h]                           \* the Library is dropped

\* The open handles after the events.
RECURSIVE ApplyEvents(_, _)
ApplyEvents(libs, events) ==
    IF events = <<>> THEN libs
    ELSE LET ev == Head(events)
             next == CASE ev.e = "open" -> (ev.h :> ev.path) @@ libs
                       [] ev.e = "close" -> [h \in DOMAIN libs \ {ev.h} |-> libs[h]]
                       [] OTHER -> libs
         IN  ApplyEvents(next, Tail(events))

\* The handle the loader gives to the next library opened.
FreshHandle(libs) ==
    CHOOSE h \in 1..(Cardinality(DOMAIN libs) + 1) :
        /\ h \notin DOMAIN libs
        /\ \A g \in 1..(h - 1) : g \in DOMAIN libs

\* The generated struct: pub struct #plugin_ident { library }
LoadedPlugin(h) == [library |-> h]

load_plugin_keeps_unverified(path, check_signature, hash, h) ==
    IF ~path.opens THEN
        [result |-> Err("DynamicLibrary"), events |-> <<EvOpenFailed(path)>>]
    ELSE IF S_dynamic_plugin_signature \notin path.symbols THEN
        [result |-> Err("NotAPlugin"),
         events |-> <<EvOpen(path, h), EvGet(h, S_dynamic_plugin_signature, FALSE),
                      EvClose(h)>>]
    ELSE
        [result |-> Ok(LoadedPlugin(h)),
         events |-> <<EvOpen(path, h), EvGet(h, S_dynamic_plugin_signature, TRUE)>>
                    \o (IF check_signature
                        THEN <<EvCall(h, S_dynamic_plugin_signature, <<>>)>> ELSE <<>>)]

load_plugin_any_symbol(path, check_signature, hash, h) ==
    IF ~path.opens THEN
        [result |-> Err("DynamicLibrary"), events |-> <<EvOpenFailed(path)>>]
    ELSE IF check_signature /\ S_dynamic_plugin_signature \in path.symbols
                /\ path.sig # hash THEN
        [result |-> Err("InvalidPluginSignature"),
         events |-> <<EvOpen(path, h), EvGet(h, S_dynamic_plugin_signature, TRUE),
                      EvCall(h, S_dynamic_plugin_signature, <<>>), EvClose(h)>>]
    ELSE
        [result |-> Ok(LoadedPlugin(h)),
         events |-> <<EvOpen(path, h),
                      EvGet(h, S_dynamic_plugin_signature,
                            S_dynamic_plugin_signature \in path.symbols)>>
                    \o (IF check_signature /\ S_dynamic_plugin_signature \in path.symbols
                        THEN <<EvCall(h, S_dynamic_plugin_signature, <<>>)>> ELSE <<>>)]

load_plugin_always_probes(path, check_signature, hash, h) ==
    IF ~path.opens THEN
        [result |-> Err("DynamicLibrary"), events |-> <<EvOpenFailed(path)>>]
    ELSE IF S_dynamic_plugin_signature \notin path.symbols THEN
        [result |-> Err("NotAPlugin"),
         events |-> <<EvOpen(path, h), EvGet(h, S_dynamic_plugin_signature, FALSE),
                      EvClose(h)>>]
    ELSE IF check_signature /\ path.sig # hash THEN
        [result |-> Err("InvalidPluginSignature"),
         events |-> <<EvOpen(path, h), EvGet(h, S_dynamic_plugin_signature, TRUE),
                      EvCall(h, S_dynamic_plugin_signature, <<>>), EvClose(h)>>]
    ELSE
        [result |-> Ok(LoadedPlugin(h)),
         events |-> <<EvOpen(path, h), EvGet(h, S_dynamic_plugin_signature, TRUE),
                      EvCall(h, S_dynamic_plugin_signature, <<>>)>>]

\* lib.rs 141-165: load_plugin(path, check_signature), with #hash the host's
\* PLUGIN_SIGNATURE and h the handle a successful Library::new returns.  A `?`
\* or `return Err` after the library was opened drops (closes) it.
load_plugin(path, check_signature, hash, h) ==
    IF ~path.opens THEN
        \* Library::new(path)?  (From<libloading::Error>: Error::DynamicLibrary)
        [result |-> Err("DynamicLibrary"), events |-> <<EvOpenFailed(path)>>]
    ELSE IF S_dynamic_plugin_signature \notin path.symbols THEN
        \* library.get(b"_dynamic_plugin_signature").map_err(|_| NotAPlugin)?
        [result |-> Err("NotAPlugin"),
         events |-> <<EvOpen(path, h), EvGet(h, S_dynamic_plugin_signature, FALSE),
                      EvClose(h)>>]
    ELSE IF check_signature /\ path.sig # hash THEN
        \* let hash = func(); if hash != #hash { return Err(InvalidPluginSignature) }
        [result |-> Err("InvalidPluginSignature"),
         events |-> <<EvOpen(path, h), EvGet(h, S_dynamic_plugin_signature, TRUE),
                      EvCall(h, S_dynamic_plugin_signature, <<>>), EvClose(h)>>]
    ELSE
        \* Ok(Self { library })
        [result |-> Ok(LoadedPlugin(h)),
         events |-> <<EvOpen(path, h), EvGet(h, S_dynamic_plugin_signature, TRUE)>>
                    \o (IF check_signature
                        THEN <<EvCall(h, S_dynamic_plugin_signature, <<>>)>> ELSE <<>>)]

load_plugin_unchecked(path, hash, h) == load_plugin(path, FALSE, hash, h)

\* lib.rs 128-133: load_plugin_and_check(path) is load_plugin(path, true).
load_plugin_and_check(path, hash, h) == load_plugin(path, TRUE, hash, h)

fn_checks_first_only(path, h, functions) ==
    IF functions = <<>> THEN [found |-> TRUE, events |-> <<>>]
    ELSE [found |-> Head(functions).name \in path.symbols,
          events |-> <<EvGet(h, Head(functions).name,
                             Head(functions).name \in path.symbols)>>]

\* lib.rs 88-94, #(#fn_checks)*: one library.get per function of the interface,
\* in declaration order, each as `unsafe extern fn()`, stopping at the first
\* that fails.  The events of the checks made, and whether all were found.
RECURSIVE fn_checks(_, _, _)
fn_checks(path, h, functions) ==
    IF functions = <<>> THEN [found |-> TRUE, events |-> <<>>]
    ELSE IF Head(functions).name \notin path.symbols THEN
        [found |-> FALSE, events |-> <<EvGet(h, Head(functions).name, FALSE)>>]
    ELSE LET rest == fn_checks(path, h, Tail(functions))
         IN  [found |-> rest.found,
              events |-> <<EvGet(h, Head(functions).name, TRUE)>> \o rest.events]

load_plugin_and_check_compat_propagates(path, functions, h) ==
    IF ~path.opens THEN
        [result |-> Err("DynamicLibrary"), events |-> <<EvOpenFailed(path)>>]
    ELSE LET checks == fn_checks(path, h, functions)
         IN  IF ~checks.found THEN
                 [result |-> Err("DynamicLibrary"),
                  events |-> <<EvOpen(path, h)>> \o checks.events \o <<EvClose(h)>>]
             ELSE
                 [result |-> Ok(LoadedPlugin(h)),
                  events |-> <<EvOpen(path, h)>> \o checks.events]

\* lib.rs 182-197: load_plugin_and_check_compat(path).
load_plugin_and_check_compat(path, functions, h) ==
    IF ~path.opens THEN
        [result |-> Err("DynamicLibrary"), events |-> <<EvOpenFailed(path)>>]
    ELSE LET checks == fn_checks(path, h, functions)
         IN  IF ~checks.found THEN
                 \* .map_err(|_| ::dynamic_plugin::Error::NotAPlugin)?
                 [result |-> Err("NotAPlugin"),
                  events |-> <<EvOpen(path, h)>> \o checks.events \o <<EvClose(h)>>]
             ELSE
                 [result |-> Ok(LoadedPlugin(h)),
                  events |-> <<EvOpen(path, h)>> \o checks.events]

\* A directory entry as read_dir yields it: Ok(entry) with its path, or Err.
DirEntry(path) == [ok |-> TRUE, path |-> path]
DirEntryErr == [ok |-> FALSE]

\* lib.rs 109-116: the loop of find_plugins over the entries from `from` on,
\* with `libs` the handles open when the entry is reached.
RECURSIVE find_plugins_loop(_, _, _, _)
find_plugins_loop(paths, from, hash, libs) ==
    IF from > Len(paths) THEN [plugins |-> <<>>, events |-> <<>>]
    ELSE IF ~paths[from].ok THEN find_plugins_loop(paths, from + 1, hash, libs)
    ELSE LET one == load_plugin_and_check(paths[from].path, hash, FreshHandle(libs))
             rest == find_plugins_loop(paths, from + 1, hash,
                                       ApplyEvents(libs, one.events))
         IN  [plugins |-> (IF one.result.ok THEN <<one.result.v>> ELSE <<>>)
                              \o rest.plugins,
              events |-> one.events \o rest.events]

\* lib.rs 101-120: find_plugins(path); read_dir is Ok(paths) or an error.
find_plugins(read_dir, hash, libs) ==
    IF ~read_dir.ok THEN [result |-> <<>>, events |-> <<>>]
    ELSE LET loop == find_plugins_loop(read_dir.paths, 1, hash, libs)
         IN  [result |-> loop.plugins, events |-> loop.events]

call_fn_cached(self, function, args, libs, ret) ==
    [result |-> Ok(ret), events |-> <<EvCall(self.library, function.name, args)>>]

\* lib.rs 77-85: the calling method generated for `function`; ret is what the
\* plugin's function returns.
call_fn(self, function, args, libs, ret) ==
    LET h == self.library
        found == h \in DOMAIN libs /\ function.name \in libs[h].symbols
    IN  IF ~found THEN
            \* self.library.get(#name_as_str)?
            [result |-> Err("DynamicLibrary"),
             events |-> <<EvGet(h, function.name, FALSE)>>]
        ELSE
            \* Ok(func(#(#arg_names),*))
            [result |-> Ok(ret),
             events |-> <<EvGet(h, function.name, TRUE), EvCall(h, function.name, args)>>]

\* The struct goes out of scope: its `library` field is dropped.
drop_plugin(self) == <<EvClose(self.library)>>

----------------------------------------------------------------------------
(* Inputs of the host: its interface, the files on disk, directory listings *)

\* The interface the host is compiled with: do_a_thing and say_hello of the
\* example host, say_hello with a second parameter so that a call has an
\* order of arguments.
HostDefinition ==
    [name |-> S_ExamplePlugin,
     functions |-> <<PluginFunction(S_do_a_thing, <<>>, None),
                     PluginFunction(S_say_hello, <<TPtr(FALSE, T_c_char), T_u32>>,
                                    Some(T_bool))>>]

HostFnNames == {HostDefinition.functions[i].name : i \in DOMAIN HostDefinition.functions}

\* Values a probe may return: the host's own signature, and the one the
\* plugin-side hasher computes for the same function list.
SigPool ==
    {plugin_interface(HostDefinition).PLUGIN_SIGNATURE,
     signature(PluginImplementation_hash(ImplOf(HostDefinition.functions)))}

\* Every kind of file a path can name: not loadable, or a library with any
\* subset of the probe and the interface's functions among its symbols; one
\* that exports every function of the interface may export them with other
\* types than the interface declares.
NotALibrary == LibraryFile(FALSE, {}, PluginSignatureHasher_default, TRUE)
LibraryFiles ==
    {NotALibrary}
    \cup {f \in [opens : {TRUE},
                 symbols : SUBSET (HostFnNames \cup {S_dynamic_plugin_signature}),
                 sig : SigPool \cup {PluginSignatureHasher_default},
                 abi_ok : BOOLEAN] :
            /\ (S_dynamic_plugin_signature \in f.symbols) = (f.sig \in SigPool)
            /\ f.abi_ok \/ HostFnNames \subseteq f.symbols}

\* The files found in plugin directories: a file that is no library, a
\* library that is no plugin, and plugins built against this interface or
\* against another one.
DirFiles ==
    {f \in LibraryFiles :
        \/ ~f.opens
        \/ f.symbols = {}
        \/ HostFnNames \cup {S_dynamic_plugin_signature} \subseteq f.symbols /\ f.abi_ok}

DirEntries == {DirEntry(path) : path \in DirFiles} \cup {DirEntryErr}

\* What read_dir returns: an error, or at most MaxDir entries.
ReadDirs ==
    {[ok |-> FALSE]}
    \cup {[ok |-> TRUE, paths |-> paths] :
            paths \in UNION {[1..n -> DirEntries] : n \in 0..MaxDir}}

ArgValues == {"a", "b"}
RetValues == {"r", "s"}

----------------------------------------------------------------------------
(* The host as a state machine: one action per facade entry point *)

Finish(op, out, created) ==
    /\ last' = op @@ [result |-> out.result, events |-> out.events]
    /\ libraries' = ApplyEvents(libraries, out.events)
    /\ plugins' = plugins \cup created
    /\ UNCHANGED buildVars

HostSignature == built.PLUGIN_SIGNATURE[1]

LoadPlugin ==
    /\ Cardinality(plugins) < MaxPlugins
    /\ \E path \in LibraryFiles, check_signature \in BOOLEAN :
        LET out == load_plugin(path, check_signature, HostSignature,
                               FreshHandle(libraries))
        IN  Finish([op |-> "load_plugin", path |-> path,
                    check_signature |-> check_signature],
                   out, IF out.result.ok THEN {out.result.v} ELSE {})

LoadPluginAndCheck ==
    /\ Cardinality(plugins) < MaxPlugins
    /\ \E path \in LibraryFiles :
        LET out == load_plugin_and_check(path, HostSignature, FreshHandle(libraries))
        IN  Finish([op |-> "load_plugin_and_check", path |-> path],
                   out, IF out.result.ok THEN {out.result.v} ELSE {})

LoadPluginAndCheckCompat ==
    /\ Cardinality(plugins) < MaxPlugins
    /\ \E path \in LibraryFiles :
        LET out == load_plugin_and_check_compat(path, plugin_def.functions,
                                                FreshHandle(libraries))
        IN  Finish([op |-> "load_plugin_and_check_compat", path |-> path],
                   out, IF out.result.ok THEN {out.result.v} ELSE {})

FindPlugins ==
    \E read_dir \in ReadDirs :
        LET out == find_plugins(read_dir, HostSignature, libraries)
        IN  /\ Cardinality(plugins) + Len(out.result) <= MaxPlugins
            /\ Finish([op |-> "find_plugins", read_dir |-> read_dir],
                      out, {out.result[i] : i \in DOMAIN out.result})

CallFn ==
    \E self \in plugins, i \in DOMAIN plugin_def.functions, ret \in RetValues :
        \E args \in [1..Len(plugin_def.functions[i].arguments) -> ArgValues] :
            LET out == call_fn(self, plugin_def.functions[i], args, libraries, ret)
            IN  Finish([op |-> "call", self |-> self,
                        function |-> plugin_def.functions[i].name, args |-> args],
                       out, {})

DropPlugin ==
    \E self \in plugins :
        /\ last' = [op |-> "drop", self |-> self, result |-> Ok(<<>>),
                    events |-> drop_plugin(self)]
        /\ libraries' = ApplyEvents(libraries, drop_plugin(self))
        /\ plugins' = plugins \ {self}
        /\ UNCHANGED buildVars

Init ==
    /\ plugin_def = HostDefinition
    /\ plugin = None
    /\ built = [NotBuilt EXCEPT !.stage = "interface",
                   !.PLUGIN_SIGNATURE = Some(plugin_interface(HostDefinition).PLUGIN_SIGNATURE)]
    /\ libraries = <<>>
    /\ plugins = {}
    /\ last = [op |-> "none", result |-> Ok(<<>>), events |-> <<>>]

Next ==
    \/ LoadPlugin
    \/ LoadPluginAndCheck
    \/ LoadPluginAndCheckCompat
    \/ FindPlugins
    \/ CallFn
    \/ DropPlugin

Spec == Init /\ [][Next]_vars

----------------------------------------------------------------------------
(* Properties of the host facade, checked under Spec *)

\* The last operation was a strict load: load_plugin(path, true), directly or
\* through load_plugin_and_check.
StrictLoad ==
    \/ last.op = "load_plugin" /\ last.check_signature
    \/ last.op = "load_plugin_and_check"

ProbeResolves(path) == path.opens /\ S_dynamic_plugin_signature \in path.symbols

\* The positions of the events of last at which plugin code is invoked.
CallsOfLast == {i \in DOMAIN last.events : last.events[i].e = "call"}

\* C1: a strict load returns a LoadedPlugin only if the library opened, the
\* symbol _dynamic_plugin_signature resolved and the value its invocation
\* returned equals the host's PLUGIN_SIGNATURE; when the symbol resolves and
\* the value differs the result is InvalidPluginSignature, the library is
\* closed again and no LoadedPlugin is produced.
C1_StrictLoadVerifies ==
    StrictLoad =>
        /\ last.result.ok =>
            /\ ProbeResolves(last.path)
            /\ last.path.sig = HostSignature
            /\ \E i \in CallsOfLast : last.events[i].symbol = S_dynamic_plugin_signature
            /\ last.result.v \in plugins
            /\ libraries[last.result.v.library] = last.path
        /\ ProbeResolves(last.path) /\ last.path.sig # HostSignature =>
            /\ last.result = Err("InvalidPluginSignature")
            /\ last.events[Len(last.events)] = EvClose(last.events[1].h)
            /\ last.events[1].h \notin DOMAIN libraries

C1_Witness ==
    /\ last.op = "load_plugin"
    /\ last.check_signature
    /\ last.result.ok
    /\ last.path.sig = HostSignature

\* C4: load_plugin on a library that opens but does not export
\* _dynamic_plugin_signature returns NotAPlugin whatever check_signature is.
C4_MissingProbeIsNotAPlugin ==
    /\ last.op \in {"load_plugin", "load_plugin_and_check"}
    /\ last.path.opens
    /\ S_dynamic_plugin_signature \notin last.path.symbols
    => last.result = Err("NotAPlugin")

C4_Witness ==
    /\ last.op = "load_plugin"
    /\ ~last.check_signature
    /\ last.path.opens
    /\ last.path.symbols = HostFnNames
    /\ last.result = Err("NotAPlugin")

\* The entries of a listing on which a strict load succeeds, in the order of
\* the listing.
StrictLoadSucceeds(entry) ==
    /\ entry.ok
    /\ ProbeResolves(entry.path)
    /\ entry.path.sig = HostSignature

C6_OnlyTheProbeIsInvokedByLoad ==
    /\ last.op \in {"load_plugin", "load_plugin_and_check"} =>
        /\ Cardinality(CallsOfLast) <= 1
        /\ \A i \in CallsOfLast :
            /\ last.events[i].symbol = S_dynamic_plugin_signature
            /\ last.events[i].args = <<>>
            /\ StrictLoad
            /\ \E j \in 1..(i - 1) :
                  last.events[j] = EvGet(last.events[i].h, S_dynamic_plugin_signature, TRUE)
        /\ ~last.result.ok /\ last.path.opens =>
            /\ last.events[Len(last.events)].e = "close"
            /\ last.events[Len(last.events)].h = last.events[1].h
            /\ last.events[1].h \notin DOMAIN libraries
    /\ \A i \in CallsOfLast :
        last.events[i].symbol # S_dynamic_plugin_signature =>
            /\ last.op = "call"
            /\ last.self \in plugins
            /\ last.events[i].h = last.self.library

C6_Witness ==
    /\ last.op = "load_plugin"
    /\ ~last.check_signature
    /\ last.result.ok
    /\ last.path.sig # HostSignature
    /\ CallsOfLast = {}

\* C8: a calling method first resolves the symbol named exactly as the function
\* from the library handle of its LoadedPlugin, then invokes it with the
\* arguments in the order given; when the symbol does not resolve it returns an
\* error and invokes nothing; and the handle of every LoadedPlugin is open.
C8_CallResolvesThenInvokes ==
    /\ \A self \in plugins : self.library \in DOMAIN libraries
    /\ last.op = "call" =>
        LET h == last.self.library
            found == last.function \in libraries[h].symbols
        IN  /\ last.events[1] = EvGet(h, last.function, found)
            /\ found =>
                /\ last.events = <<EvGet(h, last.function, TRUE),
                                   EvCall(h, last.function, last.args)>>
                /\ last.result.ok
            /\ ~found =>
                /\ last.result = Err("DynamicLibrary")
                /\ CallsOfLast = {}

C8_Witness ==
    /\ last.op = "call"
    /\ last.function = S_say_hello
    /\ last.args = <<"a", "b">>
    /\ last.result.ok
    /\ last.events[2] = EvCall(last.self.library, S_say_hello, <<"a", "b">>)

\* The last operation was a compat-mode load of a library that opens and lacks
\* the symbol of a function of the interface.
CompatMissingSymbol ==
    /\ last.op = "load_plugin_and_check_compat"
    /\ last.path.opens
    /\ ~(HostFnNames \subseteq last.path.symbols)

\* C9 as stated: a compat-mode load of a library that opens and lacks an
\* expected function symbol returns SymbolResolutionFailed.
C9_AsStated ==
    CompatMissingSymbol => last.result = Err("SymbolResolutionFailed")

\* C9: a compat-mode load of a library that opens and lacks an expected
\* function symbol returns NotAPlugin, the error a load returns for a missing
\* probe, whether or not the library exports the probe; the errors of a
\* compat-mode load are DynamicLibrary (the library did not open) and NotAPlugin.
C9_CompatMissingSymbolIsNotAPlugin ==
    /\ CompatMissingSymbol => last.result = Err("NotAPlugin")
    /\ last.op = "load_plugin_and_check_compat" /\ ~last.result.ok =>
        last.result = (IF last.path.opens THEN Err("NotAPlugin")
                       ELSE Err("DynamicLibrary"))

C9_Witness ==
    /\ CompatMissingSymbol
    /\ S_dynamic_plugin_signature \in last.path.symbols
    /\ last.path.sig = HostSignature
    /\ last.result = Err("NotAPlugin")

\* C10: a compat-mode load succeeds iff the library opens and the name of every
\* function of the interface resolves; it resolves nothing but those names,
\* never the probe, invokes nothing, and so does not depend on the probe, on
\* its value or on the types of the functions resolved.
C10_CompatChecksSymbolPresenceOnly ==
    last.op = "load_plugin_and_check_compat" =>
        /\ last.result.ok <=> last.path.opens /\ HostFnNames \subseteq last.path.symbols
        /\ last.result.ok =>
            /\ last.result.v \in plugins
            /\ libraries[last.result.v.library] = last.path
            /\ \A name \in HostFnNames :
                  \E i \in DOMAIN last.events :
                      last.events[i] = EvGet(last.result.v.library, name, TRUE)
        /\ CallsOfLast = {}
        /\ \A i \in DOMAIN last.events :
              last.events[i].e = "get" => last.events[i].symbol \in HostFnNames

C10_Witness ==
    /\ last.op = "load_plugin_and_check_compat"
    /\ last.result.ok
    /\ S_dynamic_plugin_signature \notin last.path.symbols
    /\ ~last.path.abi_ok

----------------------------------------------------------------------------
(* Properties of the build, checked under SpecBuild *)

PermutedDefinition(def, p) == [def EXCEPT !.functions = Permuted(def.functions, p)]
PermutedImplementation(impl, p) == [impl EXCEPT !.functions = Permuted(impl.functions, p)]

\* C2 as stated: an implementation that targets the interface and declares the
\* interface's functions verbatim, in any order, computes the interface's
\* PLUGIN_SIGNATURE, passes the assertion and leaves an artifact whose probe
\* returns that value.
C2_RoundTrip ==
    built.stage = "plugin" /\ plugin[1] \in Reorderings(plugin_def) =>
        /\ built.hash = built.PLUGIN_SIGNATURE
        /\ built.assert_ok = Some(TRUE)
        /\ built.artifact # None

\* C3: the signature of an interface description, and of an implementation,
\* is the signature of each permutation of its function list.
C3_OrderIndependence ==
    /\ built.stage = "interface" =>
        \A p \in Perms(Len(plugin_def.functions)) :
            signature(PluginDefinition_hash(PermutedDefinition(plugin_def, p)))
                = built.PLUGIN_SIGNATURE[1]
    /\ built.stage = "plugin" =>
        \A p \in Perms(Len(plugin[1].functions)) :
            signature(PluginImplementation_hash(PermutedImplementation(plugin[1], p)))
                = built.hash[1]

C3_Witness ==
    /\ built.stage = "plugin"
    /\ Len(plugin_def.functions) = 2
    /\ StrLess(plugin_def.functions[2].name, plugin_def.functions[1].name)
    /\ Len(plugin[1].functions) = 2
    /\ StrLess(plugin[1].functions[2].ident, plugin[1].functions[1].ident)

----------------------------------------------------------------------------
(* Properties of the signature over types, checked under SpecTypes *)

\* The types of the parameters and of the return type of f.
TypesOf(f) ==
    {f.arguments[j] : j \in DOMAIN f.arguments}
        \cup (IF f.return_type = None THEN {} ELSE {f.return_type[1]})

\* f with the type `new` wherever it has the type `old`.
Substitute(f, old, new) ==
    [f EXCEPT !.arguments = [j \in DOMAIN f.arguments |->
                                IF f.arguments[j] = old THEN new ELSE f.arguments[j]],
              !.return_type = IF f.return_type = Some(old) THEN Some(new)
                              ELSE f.return_type]

\* The description and the implementation with the one function f.
DefinitionOf(f) == [plugin_def EXCEPT !.functions = <<f>>]
ImplementationOf(f) == ImplOf(<<f>>)

\* The plugin crate compiled is the interface's function, verbatim.
Verbatim == plugin = Some(ImplOf(plugin_def.functions))

\* C11 as stated: a description that uses one of the eight constructs without
\* canonical form in a parameter or return type is rejected, no signature is
\* produced, and the reason differs from the reason the same description gets
\* with any of the other seven constructs in the place of that one.
C11_RejectionSet ==
    \A c \in DOMAIN RejectedConstructs :
        built.stage # "source" /\ RejectedConstructs[c] \in TypesOf(plugin_def.functions[1]) =>
            /\ built.stage = "rejected"
            /\ built.PLUGIN_SIGNATURE = None
            /\ built.abort # None
            /\ \A d \in DOMAIN RejectedConstructs \ {c} :
                  plugin_interface(DefinitionOf(
                      Substitute(plugin_def.functions[1], RejectedConstructs[c],
                                 RejectedConstructs[d]))).panic # built.abort

\* C12 as stated: when a function has one parameter and a return type of
\* different canonical types, the description with the two types swapped has
\* another signature, on the interface side and on the implementation side.
C12_DiscriminatorSeparation ==
    LET f == plugin_def.functions[1]
        swapped == [f EXCEPT !.arguments = <<f.return_type[1]>>,
                             !.return_type = Some(f.arguments[1])]
    IN  /\ Len(f.arguments) = 1
        /\ f.return_type # None
        /\ built.stage \in {"interface", "plugin"}
        /\ hash_type(f.arguments[1]) # hash_type(f.return_type[1])
        =>  /\ signature(PluginDefinition_hash(DefinitionOf(swapped)))
                    # built.PLUGIN_SIGNATURE[1]
            /\ built.stage = "plugin" /\ Verbatim =>
                    signature(PluginImplementation_hash(ImplementationOf(swapped)))
                        # built.hash[1]

\* C13 as stated: the bytes fed to the hasher for a function with no parameter
\* and return type X are not the bytes fed for the function of that name with
\* the one parameter X and no return type, and the two signatures differ, on the
\* interface side and on the implementation side.
C13_DegenerateEmptyCase ==
    LET f == plugin_def.functions[1]
        moved == [f EXCEPT !.arguments = <<f.return_type[1]>>, !.return_type = None]
    IN  /\ f.arguments = <<>>
        /\ f.return_type # None
        /\ built.stage \in {"interface", "plugin"}
        =>  /\ PluginDefinition_hash(DefinitionOf(moved)) # PluginDefinition_hash(plugin_def)
            /\ signature(PluginDefinition_hash(DefinitionOf(moved)))
                    # built.PLUGIN_SIGNATURE[1]
            /\ built.stage = "plugin" /\ Verbatim =>
                /\ PluginImplementation_hash(ImplementationOf(moved))
                        # PluginImplementation_hash(plugin[1])
                /\ signature(PluginImplementation_hash(ImplementationOf(moved)))
                        # built.hash[1]

\* C14 as stated: the parameters are fed to the hasher in declaration order,
\* and exchanging two parameters of different canonical types gives another
\* signature, on the interface side and on the implementation side.
C14_ParameterOrder ==
    LET f == plugin_def.functions[1]
        exchanged == [f EXCEPT !.arguments = <<f.arguments[2], f.arguments[1]>>]
    IN  /\ Len(f.arguments) = 2
        /\ built.stage \in {"interface", "plugin"}
        /\ hash_type(f.arguments[1]) # hash_type(f.arguments[2])
        =>  /\ PluginDefinition_hash(plugin_def)
                    = hash_str(plugin_def.name) \o hash_str(f.name)
                        \o Type_hash(f.arguments[1]) \o Type_hash(f.arguments[2])
            /\ signature(PluginDefinition_hash(DefinitionOf(exchanged)))
                    # built.PLUGIN_SIGNATURE[1]
            /\ built.stage = "plugin" /\ Verbatim =>
                /\ PluginImplementation_hash(plugin[1])
                        = hash_str(plugin_def.name) \o hash_str(S_fn) \o hash_str(f.name)
                            \o hash_str(S_arg) \o hash_type(f.arguments[1])
                            \o hash_str(S_arg) \o hash_type(f.arguments[2])
                /\ signature(PluginImplementation_hash(ImplementationOf(exchanged)))
                        # built.hash[1]

\* The types with the canonical form of ty that differ from it by a pointer, by
\* the pointer's mutability, by parentheses or by leading path segments.
SameCanonicalForm(ty) ==
    {TPtr(FALSE, ty), TPtr(TRUE, ty), TParen(ty)}
        \cup (IF ty.k = "Ptr" THEN {ty.elem, TPtr(~ty.mutable, ty.elem)} ELSE {})
        \cup (IF ty.k = "Paren" THEN {ty.elem} ELSE {})
        \cup (IF ty.k = "Path"
              THEN {TPath(<<S_libc>> \o ty.segs), TPath(<<Last(ty.segs)>>)} \ {ty}
              ELSE {})

\* f with one of its types replaced by a type of the same canonical form.
Recanonicalised(f) ==
    UNION {{[f EXCEPT !.arguments[j] = ty] : ty \in SameCanonicalForm(f.arguments[j])} :
            j \in DOMAIN f.arguments}
        \cup (IF f.return_type = None THEN {}
              ELSE {[f EXCEPT !.return_type = Some(ty)] :
                        ty \in SameCanonicalForm(f.return_type[1])})

\* C15 as stated: a description that differs from another only by pointer
\* mutability, by a pointer, by parentheses or by the leading segments of a
\* path has the signature of the other, on the interface side and on the
\* implementation side.
C15_CanonicalForm ==
    built.stage \in {"interface", "plugin"} =>
        \A g \in Recanonicalised(plugin_def.functions[1]) :
            /\ signature(PluginDefinition_hash(DefinitionOf(g))) = built.PLUGIN_SIGNATURE[1]
            /\ built.stage = "plugin" /\ Verbatim =>
                    signature(PluginImplementation_hash(ImplementationOf(g))) = built.hash[1]

====
